---- MODULE Spec2Model ----
(***************************************************************************)
(* State-machine model of s3dol: the dict-like views over S3 buckets       *)
(* (s3dol/base.py) and the S3Store constructors and the Supabase payload   *)
(* repair (s3dol/store.py).                                                *)
(*                                                                         *)
(* Python str values are sequences of one-character strings, bytes values  *)
(* are sequences of byte codes, and Optional[str] is a record with a       *)
(* none flag.                                                              *)
(***************************************************************************)
EXTENDS Integers, Sequences, FiniteSets, TLC

VARIABLES buckets, objects, view, last, dbPc, dbBucket, dbListed, dbCalls,
          dbWritten, dbInterfered, shim

vars == <<buckets, objects, view, last, dbPc, dbBucket, dbListed, dbCalls,
          dbWritten, dbInterfered, shim>>

(***************************************************************************)
(* Bounds of the model.                                                    *)
(***************************************************************************)
\* Number of keys the backend returns in one listing page (1000 on S3).
PageSize == 1
\* Longest prefix a view may be navigated to.
MaxPrefixLen == 4
\* Most objects a bucket holds: always more than one listing page.
MaxObjects == PageSize + 1

BucketNames == {"b1"}

\* 'a/', 'b' and the two-level key 'a/b'
KeyA == <<"a", "/">>
KeyB == <<"b">>
KeyAB == <<"a", "/", "b">>
Keys == {KeyA, KeyB, KeyAB}

\* bytes payloads written by clients: b'x' and b'0\r\nx\r\n'
PlainValue == <<120>>
FramedValue == <<48, 13, 10, 120, 13, 10>>
Values == {PlainValue, FramedValue}

(***************************************************************************)
(* Python str and bytes helpers.                                           *)
(***************************************************************************)
\* s.startswith(p)
StartsWith(s, p) == Len(p) <= Len(s) /\ SubSeq(s, 1, Len(p)) = p

\* s.endswith(p)
EndsWith(s, p) ==
    Len(p) <= Len(s) /\ SubSeq(s, Len(s) - Len(p) + 1, Len(s)) = p

\* s[n:]
DropFirst(s, n) == SubSeq(s, n + 1, Len(s))

\* Optional[str]
NoneStr == [none |-> TRUE, str |-> <<>>]
Str(s) == [none |-> FALSE, str |-> s]

\* f'{p}': None formats as 'None'
Format(p) == IF p.none THEN <<"N", "o", "n", "e">> ELSE p.str

\* ord() of the characters that occur in identifiers
Ord(c) ==
    CASE c = "/" -> 47
      [] c = "N" -> 78
      [] c = "a" -> 97
      [] c = "b" -> 98
      [] c = "e" -> 101
      [] c = "n" -> 110
      [] c = "o" -> 111

\* s < t in the backend's binary (lexicographic) key order
RECURSIVE StrLess(_, _)
StrLess(s, t) ==
    IF t = <<>> THEN FALSE
    ELSE IF s = <<>> THEN TRUE
    ELSE IF Ord(Head(s)) # Ord(Head(t)) THEN Ord(Head(s)) < Ord(Head(t))
    ELSE StrLess(Tail(s), Tail(t))

\* the identifiers of S in listing order
RECURSIVE SortedIds(_)
SortedIds(S) ==
    IF S = {} THEN <<>>
    ELSE LET m == CHOOSE x \in S : \A y \in S \ {x} : StrLess(x, y)
         IN <<m>> \o SortedIds(S \ {m})

SeqToSet(s) == {s[i] : i \in 1..Len(s)}

(***************************************************************************)
(* Results of an operation: the value returned or the exception raised.    *)
(***************************************************************************)
NoView == [cls |-> "none", bucket_name |-> "", prefix |-> Str(<<>>),
           delimiter |-> <<>>, extra |-> {}]

NoRes == [kind |-> "none", bytes |-> <<>>, view |-> NoView, bool |-> FALSE,
          keys |-> <<>>, err |-> ""]
OkRes == [NoRes EXCEPT !.kind = "ok"]
BytesRes(b) == [NoRes EXCEPT !.kind = "bytes", !.bytes = b]
ViewRes(v) == [NoRes EXCEPT !.kind = "view", !.view = v]
BoolRes(b) == [NoRes EXCEPT !.kind = "bool", !.bool = b]
KeysRes(ks) == [NoRes EXCEPT !.kind = "keys", !.keys = ks]
ErrRes(e) == [NoRes EXCEPT !.kind = "error", !.err = e]

(***************************************************************************)
(* The backend client (boto3 S3 client) as the source calls it.  objects   *)
(* maps each bucket name to a function from stored identifiers to bytes.   *)
(***************************************************************************)
Stored(b) == DOMAIN objects[b]

\* client.create_bucket(Bucket=b): idempotent, keeps existing data
create_bucket(bs, b) == bs \cup {b}

\* client.list_buckets() on the set of buckets bs
list_buckets(bs) == bs

\* client.get_object(Bucket=b, Key=id)['Body'].read()
get_object(b, id) ==
    IF b \notin buckets THEN ErrRes("NoSuchBucket")
    ELSE IF id \notin Stored(b) THEN ErrRes("NoSuchKey")
    ELSE BytesRes(objects[b][id])

\* client.head_object(Bucket=b, Key=id): succeeds, or ClientError code '404'
head_object(b, id) ==
    IF b \in buckets /\ id \in Stored(b) THEN OkRes ELSE ErrRes("404")

\* client.put_object(Bucket=b, Key=id, Body=v): the bucket's new contents
put_object(b, id, v) ==
    [i \in Stored(b) \cup {id} |-> IF i = id THEN v ELSE objects[b][i]]

\* a delete_object that leaves the object in place
delete_object_noop(b, id) == objects[b]

\* client.delete_object(Bucket=b, Key=id): the bucket's new contents
delete_object(b, id) ==
    [i \in Stored(b) \ {id} |-> objects[b][i]]

\* client.delete_objects(Bucket=b, Delete={'Objects': ids})
delete_objects(b, ids) ==
    [i \in Stored(b) \ ids |-> objects[b][i]]

\* a delete_bucket that removes a bucket that still holds objects
delete_bucket_force(b) ==
    IF b \notin buckets THEN ErrRes("NoSuchBucket") ELSE OkRes

\* client.delete_bucket(Bucket=b): only an empty bucket can be deleted
delete_bucket(b) ==
    IF b \notin buckets THEN ErrRes("NoSuchBucket")
    ELSE IF Stored(b) # {} THEN ErrRes("BucketNotEmpty")
    ELSE OkRes

\* a listing cut into pages of at most PageSize keys; an empty listing is
\* one page without Contents
RECURSIVE Paginate(_)
Paginate(ids) ==
    IF Len(ids) <= PageSize THEN <<ids>>
    ELSE <<SubSeq(ids, 1, PageSize)>>
             \o Paginate(SubSeq(ids, PageSize + 1, Len(ids)))

\* client.list_objects_v2(Bucket=b): one call returns the first page only
list_objects_v2(b) == Paginate(SortedIds(Stored(b)))[1]

(***************************************************************************)
(* BaseS3BucketReader / S3BucketReader / S3BucketDol                       *)
(***************************************************************************)
ViewClasses == {"S3BucketReader", "S3BucketDol",
                "S3BucketDolWithouBucketCheck", "SupabaseS3Store"}

\* the dataclass constructor cls(client=, bucket_name=, prefix=, delimiter=)
NewView(cls, b, p) ==
    [cls |-> cls, bucket_name |-> b, prefix |-> p, delimiter |-> <<"/">>,
     extra |-> {}]

\* type(self)(**_kw): the generated __init__ accepts the dataclass fields
\* only, any other entry of __dict__ is an unexpected keyword argument
Construct(v, p) ==
    IF v.extra # {} THEN ErrRes("TypeError")
    ELSE ViewRes([v EXCEPT !.prefix = Str(p)])

id_of_key(v, k) == Format(v.prefix) \o k

key_of_id(v, id) == DropFirst(id, Len(v.prefix.str))

\* a listing that stops after its first page
object_list_first_page(v) ==
    <<Paginate(SortedIds({id \in Stored(v.bucket_name) :
                             StartsWith(id, v.prefix.str)}))[1]>>

\* paginate(Bucket=bucket_name, Prefix=prefix): every page of the listing
object_list_pages(v) ==
    Paginate(SortedIds({id \in Stored(v.bucket_name) :
                           StartsWith(id, v.prefix.str)}))

\* the keys of a page that do not end with the delimiter
RECURSIVE FilterPage(_, _)
FilterPage(page, d) ==
    IF page = <<>> THEN <<>>
    ELSE IF EndsWith(Head(page), d) THEN FilterPage(Tail(page), d)
    ELSE <<Head(page)>> \o FilterPage(Tail(page), d)

RECURSIVE IterPages(_, _)
IterPages(pages, d) ==
    IF pages = <<>> THEN <<>>
    ELSE FilterPage(Head(pages), d) \o IterPages(Tail(pages), d)

\* BaseS3BucketReader.__iter__
BaseS3BucketReader_iter(v) == IterPages(object_list_pages(v), v.delimiter)

RECURSIVE KeysOfIds(_, _)
KeysOfIds(v, ids) ==
    IF ids = <<>> THEN <<>>
    ELSE IF StartsWith(Head(ids), v.prefix.str)
         THEN <<key_of_id(v, Head(ids))>> \o KeysOfIds(v, Tail(ids))
         ELSE KeysOfIds(v, Tail(ids))

\* list(view): S3BucketReader.__iter__ consumed to the end
S3BucketReader_iter(v) ==
    IF v.prefix.none THEN ErrRes("ParamValidationError")
    ELSE IF v.bucket_name \notin buckets THEN ErrRes("NoSuchBucket")
    ELSE KeysRes(KeysOfIds(v, BaseS3BucketReader_iter(v)))

\* BaseS3BucketReader.__getitem__
BaseS3BucketReader_getitem(v, id) == get_object(v.bucket_name, id)

\* S3BucketReader.__getitem__
S3BucketReader_getitem(v, k) ==
    LET _id == id_of_key(v, k)
    IN IF EndsWith(_id, v.delimiter) THEN Construct(v, _id)
       ELSE BaseS3BucketReader_getitem(v, _id)

\* BaseS3BucketReader.__contains__
BaseS3BucketReader_contains(v, id) ==
    LET r == head_object(v.bucket_name, id)
    IN IF r.kind = "ok" THEN BoolRes(TRUE)
       ELSE IF r.err = "404" THEN BoolRes(FALSE)
       ELSE r

\* S3BucketReader.__contains__
S3BucketReader_contains(v, k) ==
    BaseS3BucketReader_contains(v, id_of_key(v, k))

\* a __setitem__ that writes under the key, not under prefix + key
S3BucketDol_setitem_nokey(v, k, val) == put_object(v.bucket_name, k, val)

\* S3BucketDol.__setitem__ / S3BucketDolWithouBucketCheck.__setitem__:
\* the bucket's new contents
S3BucketDol_setitem(v, k, val) ==
    put_object(v.bucket_name, id_of_key(v, k), val)

\* S3BucketDol.__delitem__: the bucket's new contents
S3BucketDol_delitem(v, k) ==
    delete_object(v.bucket_name, id_of_key(v, k))

(***************************************************************************)
(* SupabaseS3Store: the payload repair applied on read.                    *)
(***************************************************************************)
CRLF == <<13, 10>>

\* raw[i:j]
Slice(raw, i, j) == SubSeq(raw, i + 1, IF j < Len(raw) THEN j ELSE Len(raw))

\* bytes.isdigit(): not empty and every byte is an ASCII digit
IsDigit(bs) == bs # <<>> /\ \A i \in 1..Len(bs) : bs[i] \in 48..57

\* bytes.isalpha(): not empty and every byte is an ASCII letter
IsAlpha(bs) ==
    bs # <<>> /\ \A i \in 1..Len(bs) : bs[i] \in (65..90) \cup (97..122)

\* bytes.lower()
Lower(bs) == [i \in 1..Len(bs) |-> IF bs[i] \in 65..90 THEN bs[i] + 32 ELSE bs[i]]

\* raw.find(b'\r\n', start): the lowest 0-based index, or -1
Find(raw, start) ==
    LET hits == {i \in start..(Len(raw) - 2) : Slice(raw, i, i + 2) = CRLF}
    IN IF hits = {} THEN -1
       ELSE CHOOSE i \in hits : \A j \in hits : i <= j

\* the condition of SupabaseS3Store.__getitem__ on the leading bytes
LooksChunked(raw) ==
    \/ StartsWith(raw, <<48>>)
    \/ IsDigit(Slice(raw, 0, 2))
    \/ /\ IsDigit(Slice(raw, 0, 1))
       /\ IsAlpha(Slice(raw, 1, 2))
       /\ Lower(Slice(raw, 1, 2))[1] \in 97..102

\* the bytes SupabaseS3Store.__getitem__ returns for the downloaded raw_data
repair(raw) ==
    IF LooksChunked(raw)
    THEN LET first_crlf_pos == Find(raw, 0)
         IN IF first_crlf_pos # -1
            THEN LET content_start == first_crlf_pos + 2
                     content_end == Find(raw, content_start)
                 IN IF content_end # -1
                    THEN Slice(raw, content_start, content_end)
                    ELSE raw
            ELSE raw
    ELSE raw

\* SupabaseS3Store.__getitem__
SupabaseS3Store_getitem(v, k) ==
    LET r == get_object(v.bucket_name, id_of_key(v, k))
    IN IF r.kind = "bytes" THEN BytesRes(repair(r.bytes))
       ELSE IF r.err = "NoSuchKey" THEN ErrRes("KeyError")
       ELSE r

\* view[k], by the class of the view
getitem(v, k) ==
    IF v.cls = "SupabaseS3Store" THEN SupabaseS3Store_getitem(v, k)
    ELSE S3BucketReader_getitem(v, k)

(***************************************************************************)
(* State and history.  last records the operation that ran last: its       *)
(* arguments, the buckets before it, the backend calls it issued and what  *)
(* it returned or raised.                                                  *)
(***************************************************************************)
NoLast == [op |-> "none", bucket |-> "", key |-> <<>>, val |-> <<>>,
           mb |-> "", pre |-> {}, res |-> NoRes, calls |-> <<>>,
           had |-> FALSE, listed |-> {}, written |-> {}, left |-> {},
           interfered |-> FALSE]

NoShim == [x |-> <<>>, framing |-> "none"]

Paths == {NoneStr, Str(<<>>), Str(KeyA)}

\* make_bucket: Optional[bool]
MakeBucket == {"None", "True", "False"}

Init ==
    /\ buckets = {}
    /\ objects = [b \in BucketNames |-> <<>>]
    /\ view = NoView
    /\ last = NoLast
    /\ dbPc = "idle"
    /\ dbBucket = ""
    /\ dbListed = {}
    /\ dbCalls = <<>>
    /\ dbWritten = {}
    /\ dbInterfered = FALSE
    /\ shim = NoShim

dbVars == <<dbPc, dbBucket, dbListed, dbCalls, dbWritten, dbInterfered>>

(***************************************************************************)
(* S3ClientReader / S3ClientDol                                            *)
(***************************************************************************)
\* S3ClientReader.__getitem__ (the read-only registry)
S3ClientReader_getitem(k) ==
    /\ dbPc = "idle"
    /\ view' = NewView("S3BucketReader", k, Str(<<>>))
    /\ last' = [NoLast EXCEPT !.op = "S3ClientReader.getitem", !.bucket = k,
                              !.pre = buckets, !.res = ViewRes(view')]
    /\ UNCHANGED <<buckets, objects, dbVars, shim>>

\* S3ClientReader.__iter__
S3ClientReader_iter ==
    /\ dbPc = "idle"
    /\ last' = [NoLast EXCEPT !.op = "S3ClientReader.iter", !.pre = buckets,
                              !.calls = <<"list_buckets">>,
                              !.res = KeysRes(SortedIds({<<b>> : b \in list_buckets(buckets)}))]
    /\ UNCHANGED <<buckets, objects, view, dbVars, shim>>

\* S3ClientDol.__getitem__
S3ClientDol_getitem(k) ==
    /\ dbPc = "idle"
    /\ buckets' = create_bucket(buckets, k)
    /\ view' = NewView("S3BucketDol", k, Str(<<>>))
    /\ last' = [NoLast EXCEPT !.op = "S3ClientDol.getitem", !.bucket = k,
                              !.pre = buckets, !.calls = <<"create_bucket">>,
                              !.res = ViewRes(view')]
    /\ UNCHANGED <<objects, dbVars, shim>>

\* S3ClientDol.__setitem__
S3ClientDol_setitem(k) ==
    /\ dbPc = "idle"
    /\ buckets' = create_bucket(buckets, k)
    /\ last' = [NoLast EXCEPT !.op = "S3ClientDol.setitem", !.bucket = k,
                              !.pre = buckets, !.calls = <<"create_bucket">>,
                              !.res = OkRes]
    /\ UNCHANGED <<objects, view, dbVars, shim>>

(***************************************************************************)
(* S3ClientDol.__delitem__: three backend calls, other clients may write   *)
(* between them.                                                           *)
(***************************************************************************)
\* res = self.client.list_objects_v2(Bucket=k)
DeleteBucket_List(k) ==
    /\ dbPc = "idle"
    /\ IF k \notin buckets
       THEN /\ last' = [NoLast EXCEPT !.op = "S3ClientDol.delitem",
                                      !.bucket = k, !.pre = buckets,
                                      !.calls = <<"list_objects_v2">>,
                                      !.res = ErrRes("NoSuchBucket")]
            /\ UNCHANGED dbVars
       ELSE /\ dbPc' = "listed"
            /\ dbBucket' = k
            /\ dbListed' = SeqToSet(list_objects_v2(k))
            /\ dbCalls' = <<"list_objects_v2">>
            /\ dbWritten' = {}
            /\ dbInterfered' = FALSE
            /\ last' = [NoLast EXCEPT !.op = "S3ClientDol.delitem:list",
                                      !.bucket = k, !.pre = buckets]
    /\ UNCHANGED <<buckets, objects, view, shim>>

\* if 'Contents' in res: self.client.delete_objects(...)
DeleteBucket_Batch ==
    /\ dbPc = "listed"
    /\ dbPc' = "emptied"
    /\ IF dbListed # {}
       THEN /\ objects' = [objects EXCEPT
                              ![dbBucket] = delete_objects(dbBucket, dbListed)]
            /\ dbCalls' = Append(dbCalls, "delete_objects")
       ELSE UNCHANGED <<objects, dbCalls>>
    /\ last' = [NoLast EXCEPT !.op = "S3ClientDol.delitem:batch",
                              !.bucket = dbBucket, !.pre = buckets]
    /\ UNCHANGED <<buckets, view, dbBucket, dbListed, dbWritten, dbInterfered,
                   shim>>

\* self.client.delete_bucket(Bucket=k)
DeleteBucket_Delete ==
    /\ dbPc = "emptied"
    /\ LET r == delete_bucket(dbBucket)
       IN /\ buckets' = IF r.kind = "ok" THEN buckets \ {dbBucket} ELSE buckets
          /\ last' = [NoLast EXCEPT !.op = "S3ClientDol.delitem",
                                    !.bucket = dbBucket, !.pre = buckets,
                                    !.calls = Append(dbCalls, "delete_bucket"),
                                    !.res = r, !.listed = dbListed,
                                    !.written = dbWritten,
                                    !.left = Stored(dbBucket),
                                    !.interfered = dbInterfered]
    /\ dbPc' = "idle"
    /\ dbBucket' = ""
    /\ dbListed' = {}
    /\ dbCalls' = <<>>
    /\ dbWritten' = {}
    /\ dbInterfered' = FALSE
    /\ UNCHANGED <<objects, view, shim>>

(***************************************************************************)
(* store.py: S3Store, validate_bucket, from_params                         *)
(***************************************************************************)
\* S3Store(bucket_name, make_bucket=, path=, endpoint_url=); supabase says
\* whether '.supabase.' occurs in endpoint_url
S3Store(bucket_name, make_bucket, path, supabase) ==
    /\ dbPc = "idle"
    /\ IF supabase
       THEN /\ view' = NewView("S3BucketDolWithouBucketCheck", bucket_name, path)
            /\ last' = [NoLast EXCEPT !.op = "S3Store.supabase",
                                      !.bucket = bucket_name,
                                      !.mb = make_bucket, !.pre = buckets,
                                      !.res = ViewRes(view')]
            /\ UNCHANGED buckets
       ELSE LET got == create_bucket(buckets, bucket_name)
                bucket == NewView("S3BucketDol", bucket_name, Str(<<>>))
                checks == make_bucket = "True"
                absent == checks /\ bucket_name \notin list_buckets(got)
            IN /\ buckets' = IF absent THEN create_bucket(got, bucket_name)
                             ELSE got
               /\ view' = IF make_bucket = "None"
                          THEN [bucket EXCEPT
                                   !.extra = {"skip_bucket_exists_check"}]
                          ELSE bucket
               /\ last' = [NoLast EXCEPT
                             !.op = "S3Store", !.bucket = bucket_name,
                             !.mb = make_bucket, !.pre = buckets,
                             !.calls = <<"create_bucket">>
                                 \o (IF checks THEN <<"list_buckets">> ELSE <<>>)
                                 \o (IF absent THEN <<"create_bucket">> ELSE <<>>),
                             !.res = ViewRes(view')]
    /\ UNCHANGED <<objects, dbVars, shim>>

\* validate_bucket(bucket_name, s3_client, make_bucket) on an S3ClientDol
validate_bucket(bucket_name, make_bucket) ==
    /\ dbPc = "idle"
    /\ LET checks == make_bucket = "True"
           absent == checks /\ bucket_name \notin list_buckets(buckets)
           made == IF absent THEN create_bucket(buckets, bucket_name)
                   ELSE buckets
       IN /\ buckets' = create_bucket(made, bucket_name)
          /\ view' = NewView("S3BucketDol", bucket_name, Str(<<>>))
          /\ last' = [NoLast EXCEPT
                        !.op = "validate_bucket", !.bucket = bucket_name,
                        !.mb = make_bucket, !.pre = buckets,
                        !.calls = (IF checks THEN <<"list_buckets">> ELSE <<>>)
                            \o (IF absent THEN <<"create_bucket">> ELSE <<>>)
                            \o <<"create_bucket">>,
                        !.res = ViewRes(view')]
    /\ UNCHANGED <<objects, dbVars, shim>>

\* S3BucketDolWithouBucketCheck.from_params, and the same classmethod on
\* SupabaseS3Store
from_params(cls, bucket_name, path) ==
    /\ dbPc = "idle"
    /\ view' = NewView(cls, bucket_name, path)
    /\ last' = [NoLast EXCEPT !.op = "from_params", !.bucket = bucket_name,
                              !.pre = buckets, !.res = ViewRes(view')]
    /\ UNCHANGED <<buckets, objects, dbVars, shim>>

(***************************************************************************)
(* Operations on the view in hand.                                         *)
(***************************************************************************)
\* view[k]: a read, or the navigation to a sub-view
GetItem(k) ==
    /\ dbPc = "idle"
    /\ view.cls # "none"
    /\ LET r == getitem(view, k)
       IN /\ IF r.kind = "view"
             THEN /\ Len(Format(r.view.prefix)) <= MaxPrefixLen
                  /\ view' = r.view
             ELSE UNCHANGED view
          /\ last' = [NoLast EXCEPT
                        !.op = "getitem", !.bucket = view.bucket_name,
                        !.key = k, !.pre = buckets, !.res = r,
                        !.calls = IF r.kind = "view" \/ r.err = "TypeError"
                                  THEN <<>> ELSE <<"get_object">>]
    /\ UNCHANGED <<buckets, objects, dbVars, shim>>

\* k in view
Contains(k) ==
    /\ dbPc = "idle"
    /\ view.cls # "none"
    /\ last' = [NoLast EXCEPT !.op = "contains", !.bucket = view.bucket_name,
                              !.key = k, !.pre = buckets,
                              !.calls = <<"head_object">>,
                              !.res = S3BucketReader_contains(view, k)]
    /\ UNCHANGED <<buckets, objects, view, dbVars, shim>>

\* list(view)
Iter ==
    /\ dbPc = "idle"
    /\ view.cls # "none"
    /\ last' = [NoLast EXCEPT !.op = "iter", !.bucket = view.bucket_name,
                              !.pre = buckets,
                              !.res = S3BucketReader_iter(view)]
    /\ UNCHANGED <<buckets, objects, view, dbVars, shim>>

\* view[k] = val, by this client or by another one while a bucket deletion
\* is under way
SetItem(k, val) ==
    /\ view.cls \notin {"none", "S3BucketReader"}
    /\ LET b == view.bucket_name
           ok == b \in buckets
           during == ok /\ dbPc # "idle" /\ b = dbBucket
       IN /\ IF ok
             THEN /\ Cardinality(Stored(b) \cup {id_of_key(view, k)})
                        <= MaxObjects
                  /\ objects' = [objects EXCEPT
                                    ![b] = S3BucketDol_setitem(view, k, val)]
             ELSE UNCHANGED objects
          /\ dbInterfered' = (dbInterfered \/ during)
          /\ dbWritten' = IF during /\ dbPc = "listed"
                          THEN dbWritten \cup {id_of_key(view, k)}
                          ELSE dbWritten
          /\ last' = [NoLast EXCEPT
                        !.op = "setitem", !.bucket = b, !.key = k,
                        !.val = val, !.pre = buckets,
                        !.had = (id_of_key(view, k) \in Stored(b)),
                        !.calls = <<"put_object">>,
                        !.res = IF ok THEN OkRes ELSE ErrRes("NoSuchBucket")]
    /\ UNCHANGED <<buckets, view, dbPc, dbBucket, dbListed, dbCalls, shim>>

\* del view[k]
DelItem(k) ==
    /\ view.cls \notin {"none", "S3BucketReader"}
    /\ LET b == view.bucket_name
           ok == b \in buckets
       IN /\ IF ok
             THEN objects' = [objects EXCEPT
                                 ![b] = S3BucketDol_delitem(view, k)]
             ELSE UNCHANGED objects
          /\ last' = [NoLast EXCEPT
                        !.op = "delitem", !.bucket = b, !.key = k,
                        !.pre = buckets, !.calls = <<"delete_object">>,
                        !.had = (id_of_key(view, k) \in Stored(b)),
                        !.res = IF ok THEN OkRes ELSE ErrRes("NoSuchBucket")]
    /\ UNCHANGED <<buckets, view, dbVars, shim>>

Next ==
    \/ \E k \in BucketNames : S3ClientReader_getitem(k)
    \/ S3ClientReader_iter
    \/ \E k \in BucketNames : S3ClientDol_getitem(k)
    \/ \E k \in BucketNames : S3ClientDol_setitem(k)
    \/ \E k \in BucketNames : DeleteBucket_List(k)
    \/ DeleteBucket_Batch
    \/ DeleteBucket_Delete
    \/ \E b \in BucketNames, mb \in MakeBucket, p \in Paths, s \in BOOLEAN :
          S3Store(b, mb, p, s)
    \/ \E b \in BucketNames, mb \in MakeBucket : validate_bucket(b, mb)
    \/ \E c \in {"S3BucketDolWithouBucketCheck", "SupabaseS3Store"},
          b \in BucketNames, p \in Paths : from_params(c, b, p)
    \/ \E k \in Keys : GetItem(k)
    \/ \E k \in Keys : Contains(k)
    \/ Iter
    \/ \E k \in Keys, val \in Values : SetItem(k, val)
    \/ \E k \in Keys : DelItem(k)

Spec == Init /\ [][Next]_vars

(***************************************************************************)
(* The specification of the object views: the constructors and the         *)
(* operations on a view.                                                   *)
(***************************************************************************)
NextView ==
    \/ \E k \in BucketNames : S3ClientReader_getitem(k)
    \/ \E k \in BucketNames : S3ClientDol_getitem(k)
    \/ \E b \in BucketNames, mb \in MakeBucket, p \in Paths, s \in BOOLEAN :
          S3Store(b, mb, p, s)
    \/ \E c \in {"S3BucketDolWithouBucketCheck", "SupabaseS3Store"},
          b \in BucketNames, p \in Paths : from_params(c, b, p)
    \/ \E k \in Keys : GetItem(k)
    \/ \E k \in Keys : Contains(k)
    \/ Iter
    \/ \E k \in Keys, val \in Values : SetItem(k, val)
    \/ \E k \in Keys : DelItem(k)

SpecView == Init /\ [][NextView]_vars

(***************************************************************************)
(* The specification of the bucket lifecycle: bucket access under the      *)
(* three policies, bucket deletion, and the clients writing meanwhile.     *)
(* What is written plays no part in it, so one payload is written.         *)
(***************************************************************************)
NextBucket ==
    \/ S3ClientReader_iter
    \/ \E k \in BucketNames : S3ClientDol_getitem(k)
    \/ \E k \in BucketNames : S3ClientDol_setitem(k)
    \/ \E k \in BucketNames : DeleteBucket_List(k)
    \/ DeleteBucket_Batch
    \/ DeleteBucket_Delete
    \/ \E b \in BucketNames, mb \in MakeBucket, p \in Paths, s \in BOOLEAN :
          S3Store(b, mb, p, s)
    \/ \E b \in BucketNames, mb \in MakeBucket : validate_bucket(b, mb)
    \/ \E k \in Keys : SetItem(k, PlainValue)
    \/ \E k \in Keys : DelItem(k)

SpecBucket == Init /\ [][NextBucket]_vars

(***************************************************************************)
(* The specification of the payload repair: a SupabaseS3Store over a       *)
(* bucket whose object 'b' the backend returns with or without the         *)
(* chunked-transfer framing.                                               *)
(***************************************************************************)
\* Longest payload drawn from ShimBytes.
MaxShimLen == 3

\* 'x', '0', CR, LF
ShimBytes == {120, 48, 13, 10}

\* every short payload, and payloads of 16 and 26 bytes, whose sizes are
\* '10' and '1a' in hexadecimal
ShimPayloads ==
    UNION {[1..n -> ShimBytes] : n \in 0..MaxShimLen}
        \cup {[i \in 1..16 |-> 120], [i \in 1..26 |-> 120]}

HexDigit(d) == IF d < 10 THEN 48 + d ELSE 87 + d

\* '%x' % n
RECURSIVE Hex(_)
Hex(n) == IF n < 16 THEN <<HexDigit(n)>>
          ELSE Hex(n \div 16) \o <<HexDigit(n % 16)>>

\* [chunk size in hex]\r\n[data]\r\n, and with the last chunk 0\r\n\r\n
wrap(x, terminated) ==
    Hex(Len(x)) \o CRLF \o x \o CRLF
        \o (IF terminated THEN <<48>> \o CRLF \o CRLF ELSE <<>>)

Framings == {"none", "chunk", "chunk+end"}

Framed(x, f) ==
    IF f = "none" THEN x ELSE wrap(x, f = "chunk+end")

InitShim ==
    \E x \in ShimPayloads, f \in Framings, b \in BucketNames :
        /\ buckets = {b}
        /\ objects = [c \in BucketNames |->
                         IF c = b THEN (KeyB :> Framed(x, f)) ELSE <<>>]
        /\ view = NewView("SupabaseS3Store", b, Str(<<>>))
        /\ last = NoLast
        /\ dbPc = "idle"
        /\ dbBucket = ""
        /\ dbListed = {}
        /\ dbCalls = <<>>
        /\ dbWritten = {}
        /\ dbInterfered = FALSE
        /\ shim = [x |-> x, framing |-> f]

NextShim == \E k \in {KeyB} : GetItem(k)

SpecShim == InitShim /\ [][NextShim]_vars

(***************************************************************************)
(* Properties                                                              *)
(***************************************************************************)
PutDone == last.op = "setitem" /\ last.res.kind = "ok"

DeleteDone == last.op = "delitem" /\ last.res.kind = "ok"

\* C1 as stated: after put(k, v) on any view, for any key and payload,
\* get(k) on the same view returns exactly v.
C1_RoundTrip ==
    PutDone => getitem(view, last.key) = BytesRes(last.val)

\* C1, amended: after put(k, v), get(k) on the same view returns exactly v
\* when prefix + k does not end with the delimiter and, on a
\* SupabaseS3Store, the payload repair leaves v unchanged.
C1_RoundTripOfData ==
    (/\ PutDone
     /\ ~EndsWith(id_of_key(view, last.key), view.delimiter)
     /\ (view.cls = "SupabaseS3Store" => repair(last.val) = last.val))
        => getitem(view, last.key) = BytesRes(last.val)

\* a put of 'b' through a view with prefix 'a/' has been read back
C1_Witness ==
    /\ PutDone
    /\ last.key = KeyB
    /\ last.val = FramedValue
    /\ view.prefix = Str(KeyA)
    /\ getitem(view, KeyB) = BytesRes(FramedValue)

\* C2: contains(k) is false for a key that is not stored, true after
\* put(k, v) and false again after delete(k).
C2_Membership ==
    /\ view.cls # "none" =>
          \A k \in Keys :
              (view.bucket_name \notin buckets
                   \/ id_of_key(view, k) \notin Stored(view.bucket_name))
                  => S3BucketReader_contains(view, k) = BoolRes(FALSE)
    /\ PutDone => S3BucketReader_contains(view, last.key) = BoolRes(TRUE)
    /\ DeleteDone => S3BucketReader_contains(view, last.key) = BoolRes(FALSE)

\* a key that was stored has just been deleted through a prefixed view
C2_Witness ==
    /\ DeleteDone
    /\ last.had
    /\ view.prefix = Str(KeyA)
    /\ S3BucketReader_contains(view, last.key) = BoolRes(FALSE)

SubView == getitem(view, KeyA)

\* C3: on every view, view['a/'] is a sub-view, and get, contains and
\* delete of 'b' on it do what get, contains and delete of 'a/b' do on the
\* view.
C3_PrefixEquivalence ==
    view.cls \in ViewClasses \ {"S3BucketReader"} =>
        /\ SubView.kind = "view"
        /\ getitem(SubView.view, KeyB) = getitem(view, KeyAB)
        /\ S3BucketReader_contains(SubView.view, KeyB)
               = S3BucketReader_contains(view, KeyAB)
        /\ S3BucketDol_delitem(SubView.view, KeyB)
               = S3BucketDol_delitem(view, KeyAB)

\* the identifiers under the view's prefix that are not placeholders
DataIds(v) ==
    {id \in Stored(v.bucket_name) :
        StartsWith(id, v.prefix.str) /\ ~EndsWith(id, v.delimiter)}

\* C4: iterate() on a view with a string prefix over an existing bucket
\* yields exactly the keys id[len(prefix):] of the stored identifiers that
\* start with the prefix and do not end with the delimiter, each once, on
\* however many pages the listing comes.
C4_IterationExact ==
    (last.op = "iter" /\ ~view.prefix.none /\ view.bucket_name \in buckets)
        => /\ last.res.kind = "keys"
           /\ SeqToSet(last.res.keys)
                  = {DropFirst(id, Len(view.prefix.str)) : id \in DataIds(view)}
           /\ Len(last.res.keys) = Cardinality(DataIds(view))
           /\ \A i \in 1..Len(last.res.keys) :
                  ~EndsWith(last.res.keys[i], view.delimiter)

\* an iteration over a listing of more than one page
C4_Witness ==
    /\ last.op = "iter"
    /\ last.res.kind = "keys"
    /\ Len(last.res.keys) > PageSize
    /\ Len(object_list_pages(view)) > 1

DeleteBucketDone == last.op = "S3ClientDol.delitem" /\ last.bucket \in last.pre

\* C5: without a concurrent writer delete_bucket succeeds on a bucket
\* holding any number of objects; afterwards the bucket is not listed and
\* holds none of its objects.
C5_DeleteBucketEmptiesFirst ==
    (DeleteBucketDone /\ ~last.interfered)
        => /\ last.res.kind = "ok"
           /\ last.bucket \notin list_buckets(buckets)
           /\ Stored(last.bucket) = {}

BucketAccess == last.op \in {"S3Store", "validate_bucket"}

\* C6: with make_bucket=None bucket access issues no backend call and
\* leaves the set of buckets unchanged.
C6_SkipIsSideEffectFree ==
    (BucketAccess /\ last.mb = "None")
        => /\ last.calls = <<>>
           /\ buckets = last.pre

\* C7: with make_bucket=False access to a bucket that does not exist fails
\* with BucketNotFound, returns no view and does not create the bucket.
C7_CheckOnlyReportsMissing ==
    (BucketAccess /\ last.mb = "False" /\ last.bucket \notin last.pre)
        => /\ last.res = ErrRes("BucketNotFound")
           /\ last.bucket \notin buckets

\* the bucket deletion failed with BucketNotEmpty after one listing, at
\* most one batch delete and one delete-bucket call
FailedWithoutRetry ==
    /\ last.res = ErrRes("BucketNotEmpty")
    /\ last.bucket \in buckets
    /\ last.calls \in {<<"list_objects_v2", "delete_objects", "delete_bucket">>,
                       <<"list_objects_v2", "delete_bucket">>}

\* C8 as stated: whenever another client writes an object into the bucket
\* between the listing and the batch delete (and no client deletes what
\* was written under a key the listing did not return), delete_bucket
\* fails with BucketNotEmpty and does not retry.
C8_ConcurrentWriteFails ==
    (/\ DeleteBucketDone
     /\ last.written # {}
     /\ (last.written \ last.listed) \subseteq last.left)
        => FailedWithoutRetry

\* C8, amended: whenever another client writes, between the listing and
\* the batch delete, an object under a key the listing did not return, and
\* the object is still stored when the delete-bucket call is made,
\* delete_bucket fails with BucketNotEmpty and does not retry.
C8_ConcurrentNewKeyFails ==
    (DeleteBucketDone /\ (last.written \ last.listed) \cap last.left # {})
        => FailedWithoutRetry

\* a deletion that listed an object, met a write of another key and failed
C8_Witness ==
    /\ DeleteBucketDone
    /\ last.listed # {}
    /\ last.written \ last.listed # {}
    /\ FailedWithoutRetry

\* C9: the read of an object the backend returns as wrap(x) returns x.
C9_RepairUnwraps ==
    (last.op = "getitem" /\ shim.framing # "none")
        => last.res = BytesRes(shim.x)

\* C10: the prefix of every view is the empty string or ends with the
\* view's delimiter, and the identifier of key k is prefix + k.
C10_PrefixInvariant ==
    view.cls # "none" =>
        /\ ~view.prefix.none
        /\ view.prefix.str = <<>> \/ EndsWith(view.prefix.str, view.delimiter)
        /\ \A k \in Keys : id_of_key(view, k) = view.prefix.str \o k

====
